---- MODULE Spec2Model ----
(***************************************************************************)
(* Model of custom_components/jablotron100/jablotron.py: the discovery     *)
(* calls (check_serial_port, Jablotron._detect_central_unit,               *)
(* Jablotron._detect_sections), Jablotron.initialize / shutdown, the poll  *)
(* task (_read_packets), the keepalive task (_keepalive), _send_packet and *)
(* the state store (_update_state).                                        *)
(*                                                                         *)
(* Packets are sequences of bytes (0..255).  Python slices p[a:b] are      *)
(* Slice(p, a, b) with the same 0-based, end-exclusive, clamped meaning.   *)
(***************************************************************************)
EXTENDS Integers, Sequences, FiniteSets, TLC

(***************************************************************************)
(* Bounds of the model.                                                    *)
(***************************************************************************)
\* packets the read stream of a discovery call yields before the line goes quiet
MaxReads == 3
\* packets the read stream of the poll task yields before the line goes quiet
MaxPollReads == 2
\* keepalive iterations that may start before the stop signal is raised
MaxTicks == 1
\* packets of a stream handed to a reader task called on its own
MaxStream == 4
\* iterations of the keepalive loop followed on a silent line
MaxKeepaliveIterations == 125

(***************************************************************************)
(* Program constants.                                                      *)
(***************************************************************************)
MAX_SECTIONS == 3
KEEPALIVE_CYCLE == 60

JABLOTRON_PACKET_SECTIONS_STATES_PREFIX == <<81, 34>>
JABLOTRON_PACKET_DEVICES_STATES_PREFIX == <<216>>
JABLOTRON_PACKET_WIRED_DEVICE_STATE_PREFIX == <<85, 8>>
JABLOTRON_PACKET_WIRELESS_DEVICE_STATE_PREFIX == <<85, 9>>
JABLOTRON_PACKET_INFO_PREFIX == <<64>>
JABLOTRON_INFO_MODEL == <<2>>
JABLOTRON_INFO_HARDWARE_VERSION == <<8>>
JABLOTRON_INFO_FIRMWARE_VERSION == <<9>>

JABLOTRON_PRIMARY_STATE_ARMED_PARTIALLY == 2
JABLOTRON_PRIMARY_STATE_ARMED_FULL == 3
JABLOTRON_SECONDARY_STATE_TRIGGERED == 1
JABLOTRON_SECONDARY_STATE_PROBLEM == 2
JABLOTRON_SECONDARY_STATE_PENDING == 4
JABLOTRON_SECONDARY_STATE_ARMING == 8
JABLOTRON_TERTIARY_STATE_ON == 1

STATE_ALARM_DISARMED == "disarmed"
STATE_ALARM_ARMED_AWAY == "armed_away"
STATE_ALARM_ARMED_NIGHT == "armed_night"
STATE_ALARM_ARMING == "arming"
STATE_ALARM_PENDING == "pending"
STATE_ALARM_TRIGGERED == "triggered"
STATE_OFF == "off"
STATE_ON == "on"

DEVICE_KEYPAD == "keypad"
DEVICE_SIREN == "siren_outdoor"
DEVICE_OTHER == "other"

None == "None"

(***************************************************************************)
(* Byte-sequence helpers.                                                  *)
(***************************************************************************)
Min(a, b) == IF a < b THEN a ELSE b

\* Python p[a:b]
Slice(p, a, b) == SubSeq(p, a + 1, Min(b, Len(p)))

\* Python p[a:]
SliceFrom(p, a) == SubSeq(p, a + 1, Len(p))

RECURSIVE LittleEndian(_)
LittleEndian(bytes) ==
    IF bytes = <<>> THEN 0 ELSE Head(bytes) + 256 * LittleEndian(Tail(bytes))

RECURSIVE BigEndian(_)
BigEndian(bytes) ==
    IF bytes = <<>> THEN 0
    ELSE bytes[Len(bytes)] + 256 * BigEndian(SubSeq(bytes, 1, Len(bytes) - 1))

\* int.from_bytes(packet, byteorder=sys.byteorder)
_bytes_to_int(packet, order) ==
    IF order = "little" THEN LittleEndian(packet) ELSE BigEndian(packet)

\* decode_info_bytes: the letters before the first NUL; a byte above 127 is
\* no UTF-8 letter on its own and raises UnicodeDecodeError
RECURSIVE decode_info_bytes(_)
decode_info_bytes(value) ==
    IF value = <<>> \/ Head(value) = 0 THEN [ok |-> TRUE, info |-> <<>>]
    ELSE IF Head(value) > 127 THEN [ok |-> FALSE, info |-> <<>>]
    ELSE LET rest == decode_info_bytes(Tail(value))
         IN  [ok |-> rest.ok, info |-> IF rest.ok THEN <<Head(value)>> \o rest.info ELSE <<>>]

\* re.match(r"JA-10[1367]", model): "JA-10" then one of 1 3 6 7, anything after
ModelSupported(model) ==
    /\ Len(model) >= 6
    /\ SubSeq(model, 1, 5) = <<74, 65, 45, 49, 48>>
    /\ model[6] \in {49, 51, 54, 55}

(***************************************************************************)
(* Packets the controller may put on the line.                             *)
(***************************************************************************)
PktEmpty == <<>>
\* 40 .. 02 "JA-101" NUL
PktModel101 == <<64, 8, 2, 74, 65, 45, 49, 48, 49, 0>>
\* 40 .. 02 "JA-80" NUL
PktModel80 == <<64, 7, 2, 74, 65, 45, 56, 48, 0>>
\* 40 .. 02 with a byte that is no UTF-8 letter
PktModelBad == <<64, 3, 2, 200, 0>>
\* 40 .. 08 "1" NUL and 40 .. 09 "2" NUL
PktHardware == <<64, 3, 8, 49, 0>>
PktFirmware == <<64, 3, 9, 50, 0>>
\* a status reply no reader recognizes
PktOther == <<82, 1, 2>>
\* 51 22: section 1 disarmed, slot 2 unused
PktSectionsOne == <<81, 34, 1, 0, 7, 0>>
\* 51 22: section 1 armed full with problem, slot 2 unused
PktSectionsOneArmed == <<81, 34, 35, 0, 7, 0>>
\* 51 22: section 1 armed full and triggered, section 2 armed partially
PktSectionsTwo == <<81, 34, 3, 1, 2, 0, 7, 0>>
\* 55 08: device 1 (64 * 1 = 40 00) with state code 108 (on)
PktDevice1On == <<85, 8, 0, 108, 64, 0>>
\* 55 08: device 1 with state code 110 (off), byte 2 a fault code
PktDevice1Off == <<85, 8, 5, 110, 64, 0>>
\* 55 09: device 1 with an unknown state code
PktDevice1Unknown == <<85, 9, 0, 1, 64, 0>>
\* 55 08: device 2 (64 * 2 = 80 00) with state code 112 (on)
PktDevice2On == <<85, 8, 0, 112, 128, 0>>
\* d8: one byte of device bits (device 1 on), no trailing packet
PktDevices == <<216, 2, 0, 2>>
\* d8: one byte of device bits (device 1 on), trailing 55 08 for device 1 (on)
PktDevicesTrailing == <<216, 2, 0, 2, 85, 8, 0, 108, 64, 0>>

Packets ==
    { PktEmpty, PktModel101, PktModel80, PktModelBad, PktHardware, PktFirmware,
      PktOther, PktSectionsOne, PktSectionsOneArmed, PktSectionsTwo,
      PktDevice1On, PktDevice1Off, PktDevice1Unknown, PktDevice2On,
      PktDevices, PktDevicesTrailing }

\* static configuration: CONF_NUMBER_OF_DEVICES, CONF_DEVICES and CONF_PASSWORD
\* (the digits of the code)
Configs ==
    { [number_of_devices |-> 2, devices |-> <<"window_opening_detector", "keypad">>,
        password |-> <<1, 2, 3, 4>>] }

(***************************************************************************)
(* Packet codec and state translator (static methods of Jablotron).        *)
(***************************************************************************)
_is_device_state_packet(prefix) ==
    \/ prefix = JABLOTRON_PACKET_WIRED_DEVICE_STATE_PREFIX
    \/ prefix = JABLOTRON_PACKET_WIRELESS_DEVICE_STATE_PREFIX

\* the loop of _parse_sections_states_packet from `section` on; the dict is
\* the sequence of the 2-byte states of sections 1..Len
RECURSIVE SectionsFrom(_, _, _)
SectionsFrom(packet, section, section_states) ==
    IF section > MAX_SECTIONS THEN section_states
    ELSE LET state_offset == section * 2
             state == Slice(packet, state_offset, state_offset + 2)
         IN  IF state = <<7, 0>> THEN section_states
             ELSE SectionsFrom(packet, section + 1, Append(section_states, state))

_parse_sections_states_packet(packet) == SectionsFrom(packet, 1, <<>>)

_parse_device_number_from_state_packet(packet, order) ==
    _bytes_to_int(Slice(packet, 4, 6), order) \div 64

\* _convert_jablotron_device_state_to_state taking every code that is not an
\* "on" code for "off"
_convert_jablotron_device_state_to_state_or_off(packet, device_number, order) ==
    LET state == _bytes_to_int(Slice(packet, 3, 4), order)
        high_device_number_offset ==
            IF device_number <= 32 THEN 0
            ELSE IF device_number <= 96 THEN -64 ELSE -128
        device_states_offset == ((device_number + high_device_number_offset) * 4) + 104
    IN  IF state = device_states_offset \/ state = device_states_offset + 1
        THEN STATE_ON ELSE STATE_OFF

_convert_jablotron_device_state_to_state(packet, device_number, order) ==
    LET state == _bytes_to_int(Slice(packet, 3, 4), order)
        high_device_number_offset ==
            IF device_number <= 32 THEN 0
            ELSE IF device_number <= 96 THEN -64 ELSE -128
        device_states_offset == ((device_number + high_device_number_offset) * 4) + 104
        on_state == device_states_offset
        on_state_2 == device_states_offset + 1
        off_state == device_states_offset + 2
    IN  IF state = off_state THEN STATE_OFF
        ELSE IF state = on_state \/ state = on_state_2 THEN STATE_ON
        ELSE None

\* bin(dec)[2:]
RECURSIVE Bin(_)
Bin(dec) == IF dec < 2 THEN <<dec>> ELSE Bin(dec \div 2) \o <<dec % 2>>

\* str.zfill(width)
RECURSIVE ZFill(_, _)
ZFill(bits, width) == IF Len(bits) >= width THEN bits ELSE ZFill(<<0>> \o bits, width)

Reverse(seq) == [i \in 1..Len(seq) |-> seq[Len(seq) + 1 - i]]

\* _hex_to_bin reading the bytes as a big-endian integer on every platform
_hex_to_bin_big_endian(hex, order) ==
    Reverse(ZFill(Bin(BigEndian(hex)), Len(hex) * 8))

_hex_to_bin(hex, order) ==
    Reverse(ZFill(Bin(_bytes_to_int(hex, order)), Len(hex) * 8))

\* the str literal "\x1b" never equals a bytes object, so the special case of
\* lines 713-714 never applies
_parse_jablotron_alarm_state(packet, order) ==
    LET first_packet == Slice(packet, 0, 1)
        number == _bytes_to_int(first_packet, order)
        primary_state == number % 16
        secondary_state == (number - primary_state) \div 16
    IN  [primary |-> primary_state,
         secondary |-> secondary_state,
         tertiary |-> _bytes_to_int(Slice(packet, 1, 2), order)]

\* _convert_jablotron_alarm_state_to_alarm_state with the primary state looked
\* at before the secondary one
_convert_jablotron_alarm_state_primary_first(packet, order) ==
    LET state == _parse_jablotron_alarm_state(packet, order)
    IN  IF state.primary = JABLOTRON_PRIMARY_STATE_ARMED_FULL
        THEN IF state.tertiary = JABLOTRON_TERTIARY_STATE_ON
             THEN STATE_ALARM_TRIGGERED ELSE STATE_ALARM_ARMED_AWAY
        ELSE IF state.primary = JABLOTRON_PRIMARY_STATE_ARMED_PARTIALLY
             THEN STATE_ALARM_ARMED_NIGHT
        ELSE IF state.secondary = JABLOTRON_SECONDARY_STATE_ARMING THEN STATE_ALARM_ARMING
        ELSE IF state.secondary = JABLOTRON_SECONDARY_STATE_PENDING THEN STATE_ALARM_PENDING
        ELSE IF state.secondary = JABLOTRON_SECONDARY_STATE_TRIGGERED THEN STATE_ALARM_TRIGGERED
        ELSE STATE_ALARM_DISARMED

_convert_jablotron_alarm_state_to_alarm_state(packet, order) ==
    LET state == _parse_jablotron_alarm_state(packet, order)
    IN  IF state.secondary = JABLOTRON_SECONDARY_STATE_ARMING THEN STATE_ALARM_ARMING
        ELSE IF state.secondary = JABLOTRON_SECONDARY_STATE_PENDING THEN STATE_ALARM_PENDING
        ELSE IF state.secondary = JABLOTRON_SECONDARY_STATE_TRIGGERED THEN STATE_ALARM_TRIGGERED
        ELSE IF state.primary = JABLOTRON_PRIMARY_STATE_ARMED_FULL
             THEN IF state.tertiary = JABLOTRON_TERTIARY_STATE_ON
                  THEN STATE_ALARM_TRIGGERED ELSE STATE_ALARM_ARMED_AWAY
        ELSE IF state.primary = JABLOTRON_PRIMARY_STATE_ARMED_PARTIALLY
             THEN STATE_ALARM_ARMED_NIGHT
        ELSE STATE_ALARM_DISARMED

_convert_jablotron_alarm_state_to_problem_sensor_state(packet, order) ==
    LET state == _parse_jablotron_alarm_state(packet, order)
    IN  IF state.secondary = JABLOTRON_SECONDARY_STATE_PROBLEM THEN STATE_ON ELSE STATE_OFF

\* _convert_jablotron_device_state_to_problem_sensor_state looking at the
\* state code, packet[3:4]
_convert_jablotron_device_state_to_problem_sensor_state_of_code(packet) ==
    IF Slice(packet, 3, 4) \in {<<5>>, <<6>>, <<134>>, <<168>>} THEN STATE_ON ELSE STATE_OFF

_convert_jablotron_device_state_to_problem_sensor_state(packet) ==
    IF Slice(packet, 2, 3) \in {<<5>>, <<6>>, <<134>>, <<168>>} THEN STATE_ON ELSE STATE_OFF

\* "section_{}".format(section) and the like: one id per (kind, number)
_create_section_alarm_id(section) == <<"section_", section>>
_create_section_problem_sensor_id(section) == <<"section_problem_sensor_", section>>
_create_device_sensor_id(number) == <<"device_sensor_", number>>
_create_device_problem_sensor_id(number) == <<"device_problem_sensor_", number>>

(***************************************************************************)
(* State.                                                                  *)
(***************************************************************************)
VARIABLES
    \* platform and configuration
    byteorder,              \* sys.byteorder
    config,                 \* self._config: number of devices and their types
    \* the calling (host) thread
    mainPc,                 \* where the host is: start, check, central, sections, flag, ready, ...
    initError,              \* the error initialize() raised, or None
    \* one discovery call: stop_event, the reader and writer tasks, the caller
    discKind,               \* none, check, central, sections
    discPc,                 \* idle, waiting (reader.result), joining (executor.shutdown), returned
    discExc,                \* the error the call raises, or None
    discStop,               \* stop_event
    discTimedOut,           \* reader.result(TIMEOUT) timed out in this call
    rdPc,                   \* reader task: none, open, read, done
    rdFields,               \* the reader's locals
    rdFuture,               \* the reader's future: pending, result, exception
    wrPc,                   \* writer task: none, loop, sending, done
    \* the serial line
    streamLeft,             \* packets the open read stream still yields
    openWriters,            \* tasks between open(.., "wb") and close
    \* Jablotron fields
    _central_unit,
    _alarm_control_panels,
    _section_problem_sensors,
    _device_sensors,
    _device_problem_sensors,
    _entities,
    states,
    last_update_success,
    _state_checker_stop_event,
    _state_checker_data_updating_event,
    \* the poll task (_read_packets) and the keepalive task (_keepalive)
    pollPc,                 \* idle, open, read, ignored, sleep, done, crashed
    kaPc,                   \* idle, tick, sending, done
    counter,                \* _keepalive's counter
    kaTicks,                \* keepalive iterations started
    \* history
    lastPoll,               \* what the poll task's latest step did
    \* one call of a function of the module on its own
    fnCall,                 \* the function and its arguments
    fnRet                   \* what it returned, once it has

platformVars == <<byteorder, config>>
hostVars == <<mainPc, initError>>
discVars == <<discKind, discPc, discExc, discStop, discTimedOut, rdPc, rdFields, rdFuture, wrPc>>
registryVars ==
    <<_central_unit, _alarm_control_panels, _section_problem_sensors,
      _device_sensors, _device_problem_sensors>>
storeVars == <<states, lastPoll>>
pollVars == <<pollPc, _state_checker_data_updating_event>>
kaVars == <<kaPc, counter, kaTicks>>

callVars == <<fnCall, fnRet>>

vars ==
    <<callVars, platformVars, hostVars, discVars, streamLeft, openWriters, registryVars,
      _entities, storeVars, last_update_success, _state_checker_stop_event,
      pollVars, kaVars>>

\* Optional[...] of a structured value
Nothing == [some |-> FALSE]
Some(x) == [some |-> TRUE, v |-> x]

NoFields ==
    [model |-> Nothing, hardware_version |-> Nothing,
     firmware_version |-> Nothing, section_states |-> Nothing]

\* no function is called on its own
NoCall == [fn |-> "none"]

NoPoll == [kind |-> "none", calls |-> <<>>, broadcast |-> {}]

Init ==
    /\ byteorder \in {"little", "big"}
    /\ config \in Configs
    /\ mainPc = "start"
    /\ initError = None
    /\ discKind = "none"
    /\ discPc = "idle"
    /\ discExc = None
    /\ discStop = FALSE
    /\ discTimedOut = FALSE
    /\ rdPc = "none"
    /\ rdFields = NoFields
    /\ rdFuture = [st |-> "pending", val |-> Nothing]
    /\ wrPc = "none"
    /\ streamLeft = 0
    /\ openWriters = {}
    /\ _central_unit = Nothing
    /\ _alarm_control_panels = <<>>
    /\ _section_problem_sensors = <<>>
    /\ _device_sensors = <<>>
    /\ _device_problem_sensors = <<>>
    /\ _entities = {}
    /\ states = <<>>
    /\ last_update_success = FALSE
    /\ _state_checker_stop_event = FALSE
    /\ _state_checker_data_updating_event = FALSE
    /\ pollPc = "idle"
    /\ kaPc = "idle"
    /\ counter = 0
    /\ kaTicks = 0
    /\ lastPoll = NoPoll
    /\ fnCall = NoCall
    /\ fnRet = Nothing

(***************************************************************************)
(* Discovery: check_serial_port, _detect_central_unit, _detect_sections.   *)
(* Each submits a reader task and a writer task, waits for the reader's    *)
(* result with a timeout, and in its finally block raises stop_event and   *)
(* shuts its executor down (which joins both tasks).                       *)
(***************************************************************************)
StartDiscovery(kind) ==
    /\ discKind' = kind
    /\ discPc' = "waiting"
    /\ discExc' = None
    /\ discStop' = FALSE
    /\ discTimedOut' = FALSE
    /\ rdPc' = "open"
    /\ rdFields' = NoFields
    /\ rdFuture' = [st |-> "pending", val |-> Nothing]
    /\ wrPc' = "loop"

\* one pass of the body of a reader's while loop on `pkt`: the new locals and
\* whether the loop breaks
check_serial_port_reader(fields, pkt) ==
    IF Slice(pkt, 0, 1) = JABLOTRON_PACKET_INFO_PREFIX /\ Slice(pkt, 2, 3) = JABLOTRON_INFO_MODEL
    THEN LET d == decode_info_bytes(SliceFrom(pkt, 3))
         IN  IF d.ok THEN [fields |-> [fields EXCEPT !.model = Some(d.info)], break |-> TRUE]
             ELSE [fields |-> fields, break |-> FALSE]
    ELSE [fields |-> fields, break |-> FALSE]

\* reader_thread of _detect_central_unit with the firmware reply stored as
\* the hardware version
_detect_central_unit_reader_mixed(fields, pkt) ==
    LET d == decode_info_bytes(SliceFrom(pkt, 3))
        tag == Slice(pkt, 2, 3)
        scanned ==
            IF Slice(pkt, 0, 1) = JABLOTRON_PACKET_INFO_PREFIX /\ d.ok
            THEN IF tag = JABLOTRON_INFO_MODEL THEN [fields EXCEPT !.model = Some(d.info)]
                 ELSE IF tag = JABLOTRON_INFO_HARDWARE_VERSION
                      THEN [fields EXCEPT !.hardware_version = Some(d.info)]
                 ELSE IF tag = JABLOTRON_INFO_FIRMWARE_VERSION
                      THEN [fields EXCEPT !.hardware_version = Some(d.info),
                                          !.firmware_version = Some(d.info)]
                 ELSE fields
            ELSE fields
    IN  [fields |-> scanned,
         break |-> scanned.model.some /\ scanned.hardware_version.some
                   /\ scanned.firmware_version.some]

_detect_central_unit_reader(fields, pkt) ==
    LET d == decode_info_bytes(SliceFrom(pkt, 3))
        tag == Slice(pkt, 2, 3)
        scanned ==
            IF Slice(pkt, 0, 1) = JABLOTRON_PACKET_INFO_PREFIX /\ d.ok
            THEN IF tag = JABLOTRON_INFO_MODEL THEN [fields EXCEPT !.model = Some(d.info)]
                 ELSE IF tag = JABLOTRON_INFO_HARDWARE_VERSION
                      THEN [fields EXCEPT !.hardware_version = Some(d.info)]
                 ELSE IF tag = JABLOTRON_INFO_FIRMWARE_VERSION
                      THEN [fields EXCEPT !.firmware_version = Some(d.info)]
                 ELSE fields
            ELSE fields
    IN  [fields |-> scanned,
         break |-> scanned.model.some /\ scanned.hardware_version.some
                   /\ scanned.firmware_version.some]

_detect_sections_reader(fields, pkt) ==
    IF Slice(pkt, 0, 2) = JABLOTRON_PACKET_SECTIONS_STATES_PREFIX
    THEN [fields |-> [fields EXCEPT !.section_states = Some(_parse_sections_states_packet(pkt))],
          break |-> TRUE]
    ELSE [fields |-> fields, break |-> FALSE]

ReaderScan(kind, fields, pkt) ==
    IF kind = "check" THEN check_serial_port_reader(fields, pkt)
    ELSE IF kind = "central" THEN _detect_central_unit_reader(fields, pkt)
    ELSE _detect_sections_reader(fields, pkt)

\* what reader_thread returns once its loop is left
ReaderValue(kind, fields) ==
    IF kind = "check" THEN fields.model
    ELSE IF kind = "central"
    THEN IF fields.model.some /\ fields.hardware_version.some /\ fields.firmware_version.some
         THEN Some([model |-> fields.model.v,
                    hardware_version |-> fields.hardware_version.v,
                    firmware_version |-> fields.firmware_version.v])
         ELSE Nothing
    ELSE fields.section_states

\* reader_thread: stream = open(serial_port, "rb"), then the first loop test
ReaderOpen ==
    /\ rdPc = "open"
    /\ \/ /\ rdPc' = "done"
          /\ rdFuture' = [st |-> "exception", val |-> Nothing]
          /\ UNCHANGED streamLeft
       \/ /\ streamLeft' = MaxReads
          /\ IF discStop
             THEN /\ rdPc' = "done"
                  /\ rdFuture' = [st |-> "result", val |-> ReaderValue(discKind, rdFields)]
             ELSE /\ rdPc' = "read"
                  /\ UNCHANGED rdFuture
    /\ UNCHANGED <<callVars, platformVars, hostVars, discKind, discPc, discExc, discStop, discTimedOut,
                   rdFields, wrPc, openWriters, registryVars, _entities, storeVars,
                   last_update_success, _state_checker_stop_event, pollVars, kaVars>>

\* reader_thread: stream.read returns a packet; the loop body, then the loop test
ReaderRead ==
    /\ rdPc = "read"
    /\ streamLeft > 0
    /\ \E pkt \in Packets :
          LET r == ReaderScan(discKind, rdFields, pkt)
          IN  /\ rdFields' = r.fields
              /\ IF r.break \/ discStop
                 THEN /\ rdPc' = "done"
                      /\ rdFuture' = [st |-> "result", val |-> ReaderValue(discKind, r.fields)]
                 ELSE UNCHANGED <<rdPc, rdFuture>>
    /\ streamLeft' = streamLeft - 1
    /\ UNCHANGED <<callVars, platformVars, hostVars, discKind, discPc, discExc, discStop, discTimedOut,
                   wrPc, openWriters, registryVars, _entities, storeVars,
                   last_update_success, _state_checker_stop_event, pollVars, kaVars>>

\* reader_thread: stream.read raises; the finally closes the stream
ReaderReadFails ==
    /\ rdPc = "read"
    /\ rdPc' = "done"
    /\ rdFuture' = [st |-> "exception", val |-> Nothing]
    /\ UNCHANGED <<callVars, platformVars, hostVars, discKind, discPc, discExc, discStop, discTimedOut,
                   rdFields, wrPc, streamLeft, openWriters, registryVars, _entities,
                   storeVars, last_update_success, _state_checker_stop_event, pollVars,
                   kaVars>>

\* writer_thread: the loop test, then open(serial_port, "wb") of the send
WriterLoop ==
    /\ wrPc = "loop"
    /\ IF discStop
       THEN wrPc' = "done" /\ UNCHANGED openWriters
       ELSE \/ wrPc' = "sending" /\ openWriters' = openWriters \cup {"writer"}
            \/ wrPc' = "done" /\ UNCHANGED openWriters
    /\ UNCHANGED <<callVars, platformVars, hostVars, discKind, discPc, discExc, discStop, discTimedOut,
                   rdPc, rdFields, rdFuture, streamLeft, registryVars, _entities, storeVars,
                   last_update_success, _state_checker_stop_event, pollVars, kaVars>>

\* writer_thread: write, settle, close, sleep(1); or the write raises and ends the task
WriterSent ==
    /\ wrPc = "sending"
    /\ openWriters' = openWriters \ {"writer"}
    /\ wrPc' \in {"loop", "done"}
    /\ UNCHANGED <<callVars, platformVars, hostVars, discKind, discPc, discExc, discStop, discTimedOut,
                   rdPc, rdFields, rdFuture, streamLeft, registryVars, _entities, storeVars,
                   last_update_success, _state_checker_stop_event, pollVars, kaVars>>

\* check_serial_port with lines 140-141 left out
check_serial_port_result_unvalidated(val) ==
    IF ~val.some THEN "ModelNotDetected" ELSE None

\* check_serial_port, lines 137-141: the error for the reader's result
check_serial_port_result(val) ==
    IF ~val.some THEN "ModelNotDetected"
    ELSE IF ~ModelSupported(val.v) THEN "ModelNotSupported"
    ELSE None

\* the except clause (IndexError, FileNotFoundError, IsADirectoryError,
\* UnboundLocalError, OSError) applied to an error raised in the try block;
\* concurrent.futures.TimeoutError is an OSError from Python 3.11 on and is
\* not one before (timeoutIsOSError)
DiscoveryExcept(exc, timeoutIsOSError) ==
    IF exc = "OSError" \/ (exc = "TimeoutError" /\ timeoutIsOSError)
    THEN "ServiceUnavailable"
    ELSE exc

\* reader.result(TIMEOUT) returns or re-raises the reader's error; then the
\* finally block raises stop_event
DiscResult ==
    /\ discPc = "waiting"
    /\ rdFuture.st # "pending"
    /\ IF rdFuture.st = "exception"
       THEN /\ discExc' = DiscoveryExcept("OSError", FALSE)
            /\ UNCHANGED _central_unit
       ELSE IF discKind = "check"
       THEN /\ discExc' = DiscoveryExcept(check_serial_port_result(rdFuture.val), FALSE)
            /\ UNCHANGED _central_unit
       ELSE IF discKind = "central"
       THEN /\ _central_unit' = rdFuture.val
            /\ discExc' = None
       ELSE /\ discExc' = None
            /\ UNCHANGED _central_unit
    /\ discStop' = TRUE
    /\ discPc' = "joining"
    /\ UNCHANGED <<callVars, platformVars, hostVars, discKind, discTimedOut, rdPc, rdFields, rdFuture,
                   wrPc, streamLeft, openWriters, _alarm_control_panels,
                   _section_problem_sensors, _device_sensors, _device_problem_sensors,
                   _entities, storeVars, last_update_success, _state_checker_stop_event,
                   pollVars, kaVars>>

\* reader.result(TIMEOUT) times out while the reader is still running
DiscTimeout ==
    /\ discPc = "waiting"
    /\ rdFuture.st = "pending"
    /\ \E timeoutIsOSError \in BOOLEAN :
          discExc' = DiscoveryExcept("TimeoutError", timeoutIsOSError)
    /\ discTimedOut' = TRUE
    /\ discStop' = TRUE
    /\ discPc' = "joining"
    /\ UNCHANGED <<callVars, platformVars, hostVars, discKind, rdPc, rdFields, rdFuture, wrPc,
                   streamLeft, openWriters, registryVars, _entities, storeVars,
                   last_update_success, _state_checker_stop_event, pollVars, kaVars>>

\* thread_pool_executor.shutdown(wait=False): the call goes on at once
ExecutorNotWaited == TRUE

\* thread_pool_executor.shutdown() returns once both tasks have ended
ExecutorDrained == rdPc = "done" /\ wrPc = "done"

\* the end of the finally block, then lines 336-337 / 382-383
DiscJoin ==
    /\ discPc = "joining"
    /\ ExecutorDrained
    /\ discPc' = "returned"
    /\ discExc' =
          IF discExc # None THEN discExc
          ELSE IF discKind = "central" /\ ~_central_unit.some THEN "ShouldNotHappen"
          ELSE IF discKind = "sections" /\ ~rdFuture.val.some THEN "ShouldNotHappen"
          ELSE None
    /\ UNCHANGED <<callVars, platformVars, hostVars, discKind, discStop, discTimedOut, rdPc, rdFields,
                   rdFuture, wrPc, streamLeft, openWriters, registryVars, _entities,
                   storeVars, last_update_success, _state_checker_stop_event, pollVars,
                   kaVars>>

(***************************************************************************)
(* The entity registry and the state store.                                *)
(***************************************************************************)
\* d[key] = value on a dict
Put(d, key, value) == [k \in DOMAIN d \cup {key} |-> IF k = key THEN value ELSE d[k]]

\* _detect_sections, lines 385-402: the registry entries and the seeded states
\* of the sections from `section` on
RECURSIVE RegisterSectionsFrom(_, _, _, _)
RegisterSectionsFrom(reg, section_states, section, order) ==
    IF section > Len(section_states) THEN reg
    ELSE LET section_state == section_states[section]
             section_alarm_id == _create_section_alarm_id(section)
             section_problem_sensor_id == _create_section_problem_sensor_id(section)
             seeded ==
                 Put(Put(reg.states, section_alarm_id,
                         _convert_jablotron_alarm_state_to_alarm_state(section_state, order)),
                     section_problem_sensor_id,
                     _convert_jablotron_alarm_state_to_problem_sensor_state(section_state, order))
         IN  RegisterSectionsFrom(
                 [reg EXCEPT
                    !.alarm_control_panels =
                        Append(@, [section |-> section, id |-> section_alarm_id]),
                    !.section_problem_sensors = Append(@, section_problem_sensor_id),
                    !.states = seeded],
                 section_states, section + 1, order)

\* _create_devices from index i (0-based) on
RECURSIVE CreateDevicesFrom(_, _, _)
CreateDevicesFrom(reg, cfg, i) ==
    IF i >= cfg.number_of_devices THEN reg
    ELSE LET type == cfg.devices[i + 1]
             number == i + 1
             device_id == _create_device_sensor_id(number)
             device_problem_sensor_id == _create_device_problem_sensor_id(number)
         IN  IF type = DEVICE_KEYPAD \/ type = DEVICE_SIREN \/ type = DEVICE_OTHER
             THEN CreateDevicesFrom(reg, cfg, i + 1)
             ELSE CreateDevicesFrom(
                      [reg EXCEPT
                         !.device_sensors = Append(@, [id |-> device_id, type |-> type]),
                         !.device_problem_sensors = Append(@, device_problem_sensor_id),
                         !.states = Put(Put(@, device_id, STATE_OFF),
                                        device_problem_sensor_id, STATE_OFF)],
                      cfg, i + 1)

\* _create_devices with lines 434-435 left out: the Controls are registered
\* and their states are not seeded
_create_devices_unseeded(reg, cfg) ==
    [CreateDevicesFrom(reg, cfg, 0) EXCEPT !.states = reg.states]

_create_devices(reg, cfg) == CreateDevicesFrom(reg, cfg, 0)

\* the ids of every Control of the registry
ControlIds ==
    {_alarm_control_panels[i].id : i \in DOMAIN _alarm_control_panels}
    \cup {_section_problem_sensors[i] : i \in DOMAIN _section_problem_sensors}
    \cup {_device_sensors[i].id : i \in DOMAIN _device_sensors}
    \cup {_device_problem_sensors[i] : i \in DOMAIN _device_problem_sensors}

\* _update_state with lines 509-510 left out: every call stores and notifies
_update_state_unguarded(s, id, state) ==
    [states |-> Put(s.states, id, state),
     calls |-> Append(s.calls,
                      [id |-> id, state |-> state,
                       old |-> IF id \in DOMAIN s.states THEN s.states[id] ELSE None,
                       subscribed |-> id \in _entities, notified |-> id \in _entities,
                       again |-> s.last = <<id, state>>]),
     last |-> <<id, state>>]

\* _update_state on a store s = [states, calls, last]: calls is the log of the
\* calls made by the running handler, last the latest call made
_update_state(s, id, state) ==
    LET present == id \in DOMAIN s.states
        old == IF present THEN s.states[id] ELSE None
        call(notified) ==
            [id |-> id, state |-> state, old |-> old, subscribed |-> id \in _entities,
             notified |-> notified, again |-> s.last = <<id, state>>]
    IN  IF present /\ state = s.states[id]
        THEN [s EXCEPT !.calls = Append(@, call(FALSE)), !.last = <<id, state>>]
        ELSE [states |-> Put(s.states, id, state),
              calls |-> Append(s.calls, call(id \in _entities)),
              last |-> <<id, state>>]

RECURSIVE SectionStatesFrom(_, _, _, _)
SectionStatesFrom(s, section_states, section, order) ==
    IF section > Len(section_states) THEN s
    ELSE LET section_state == section_states[section]
             s1 == _update_state(s, _create_section_alarm_id(section),
                       _convert_jablotron_alarm_state_to_alarm_state(section_state, order))
             s2 == _update_state(s1, _create_section_problem_sensor_id(section),
                       _convert_jablotron_alarm_state_to_problem_sensor_state(section_state, order))
         IN  SectionStatesFrom(s2, section_states, section + 1, order)

_parse_section_states_packet(s, pkt, order) ==
    SectionStatesFrom(s, _parse_sections_states_packet(pkt), 1, order)

_parse_device_state_packet(s, pkt, order) ==
    LET device_number == _parse_device_number_from_state_packet(pkt, order)
        device_state == _convert_jablotron_device_state_to_state(pkt, device_number, order)
        device_problem_sensor_state == _convert_jablotron_device_state_to_problem_sensor_state(pkt)
        s1 == _update_state(s, _create_device_problem_sensor_id(device_number),
                            device_problem_sensor_state)
    IN  IF device_state # None
        THEN _update_state(s1, _create_device_sensor_id(device_number), device_state)
        ELSE s1

\* the loop of _parse_devices_states_packet from device i on
RECURSIVE DevicesStatesFrom(_, _, _, _)
DevicesStatesFrom(s, bits, i, cfg) ==
    IF i > cfg.number_of_devices THEN s
    ELSE LET device_state == IF Slice(bits, i, i + 1) = <<1>> THEN STATE_ON ELSE STATE_OFF
         IN  DevicesStatesFrom(_update_state(s, _create_device_sensor_id(i), device_state),
                               bits, i + 1, cfg)

_parse_devices_states_packet(s, pkt, order, cfg) ==
    LET states_start_packet == 3
        triggered_device_start_packet ==
            states_start_packet + _bytes_to_int(Slice(pkt, 1, 2), order) - 1
        bits == _hex_to_bin(Slice(pkt, states_start_packet, triggered_device_start_packet), order)
        s1 == IF _is_device_state_packet(
                     Slice(pkt, triggered_device_start_packet, triggered_device_start_packet + 2))
              THEN _parse_device_state_packet(s, SliceFrom(pkt, triggered_device_start_packet),
                                              order)
              ELSE s
    IN  DevicesStatesFrom(s1, bits, 1, cfg)

(***************************************************************************)
(* The host thread: check_serial_port(), initialize(), subscriptions,      *)
(* arm/disarm commands, shutdown().                                        *)
(***************************************************************************)
CheckPassed == mainPc = "check" /\ discPc = "returned" /\ discExc = None

\* the config flow calls check_serial_port(serial_port)
CallCheckSerialPort ==
    /\ mainPc = "start"
    /\ mainPc' = "check"
    /\ StartDiscovery("check")
    /\ UNCHANGED <<callVars, platformVars, initError, streamLeft, openWriters, registryVars,
                   _entities, storeVars, last_update_success, _state_checker_stop_event,
                   pollVars, kaVars>>

\* initialize(), up to the wait in _detect_central_unit
CallInitialize ==
    /\ mainPc = "start" \/ CheckPassed
    /\ mainPc' = "central"
    /\ StartDiscovery("central")
    /\ UNCHANGED <<callVars, platformVars, initError, streamLeft, openWriters, registryVars,
                   _entities, storeVars, last_update_success, _state_checker_stop_event,
                   pollVars, kaVars>>

\* initialize(): _detect_central_unit has returned or raised; on success
\* _detect_sections starts
InitAfterCentral ==
    /\ mainPc = "central"
    /\ discPc = "returned"
    /\ IF discExc # None
       THEN /\ mainPc' = "failed"
            /\ initError' = discExc
            /\ UNCHANGED discVars
       ELSE /\ mainPc' = "sections"
            /\ StartDiscovery("sections")
            /\ UNCHANGED initError
    /\ UNCHANGED <<callVars, platformVars, streamLeft, openWriters, registryVars, _entities,
                   storeVars, last_update_success, _state_checker_stop_event, pollVars,
                   kaVars>>

\* the locals of a discovery call are gone once initialize() has moved on
DiscoveryOver ==
    /\ discKind' = "none"
    /\ discPc' = "idle"
    /\ discExc' = None
    /\ discStop' = FALSE
    /\ discTimedOut' = FALSE
    /\ rdPc' = "none"
    /\ rdFields' = NoFields
    /\ rdFuture' = [st |-> "pending", val |-> Nothing]
    /\ wrPc' = "none"

\* the registry and the store as one record, and back
Registry ==
    [alarm_control_panels |-> _alarm_control_panels,
     section_problem_sensors |-> _section_problem_sensors,
     device_sensors |-> _device_sensors,
     device_problem_sensors |-> _device_problem_sensors,
     states |-> states]

SetRegistry(reg) ==
    /\ _alarm_control_panels' = reg.alarm_control_panels
    /\ _section_problem_sensors' = reg.section_problem_sensors
    /\ _device_sensors' = reg.device_sensors
    /\ _device_problem_sensors' = reg.device_problem_sensors
    /\ states' = reg.states

\* initialize() with _create_devices called ahead of _detect_sections
InitAfterSections_devices_first ==
    /\ mainPc = "sections"
    /\ discPc = "returned"
    /\ IF discExc # None
       THEN /\ mainPc' = "failed"
            /\ initError' = discExc
            /\ SetRegistry(_create_devices(Registry, config))
            /\ UNCHANGED <<discVars, _central_unit, pollPc, kaPc>>
       ELSE /\ SetRegistry(RegisterSectionsFrom(_create_devices(Registry, config),
                                                rdFuture.val.v, 1, byteorder))
            /\ pollPc' = "open"
            /\ kaPc' = "tick"
            /\ mainPc' = "flag"
            /\ DiscoveryOver
            /\ UNCHANGED <<initError, _central_unit>>
    /\ UNCHANGED <<callVars, platformVars, streamLeft, openWriters, _entities,
                   lastPoll, last_update_success, _state_checker_stop_event,
                   _state_checker_data_updating_event, counter, kaTicks>>

\* initialize(): _detect_sections has raised, or its wait has returned: then
\* lines 385-402, _create_devices and the submission of both background tasks
InitAfterSections ==
    /\ mainPc = "sections"
    /\ discPc = "returned"
    /\ IF discExc # None
       THEN /\ mainPc' = "failed"
            /\ initError' = discExc
            /\ UNCHANGED <<discVars, registryVars, states, pollPc, kaPc>>
       ELSE /\ SetRegistry(_create_devices(
                               RegisterSectionsFrom(Registry, rdFuture.val.v, 1, byteorder),
                               config))
            /\ pollPc' = "open"
            /\ kaPc' = "tick"
            /\ mainPc' = "flag"
            /\ DiscoveryOver
            /\ UNCHANGED <<initError, _central_unit>>
    /\ UNCHANGED <<callVars, platformVars, streamLeft, openWriters, _entities,
                   lastPoll, last_update_success, _state_checker_stop_event,
                   _state_checker_data_updating_event, counter, kaTicks>>

\* initialize(), line 232
InitFlag ==
    /\ mainPc = "flag"
    /\ last_update_success' = TRUE
    /\ mainPc' = "ready"
    /\ UNCHANGED <<callVars, platformVars, initError, discVars, streamLeft, openWriters,
                   registryVars, _entities, storeVars, _state_checker_stop_event, pollVars,
                   kaVars>>

\* the Controls whose entities the host subscribes in this model
Subscribers == {_create_section_alarm_id(1), _create_device_sensor_id(1)}

\* substribe_entity_for_updates(control_id, entity) for a Control of the registry
Subscribe ==
    /\ mainPc = "ready"
    /\ \E control_id \in (ControlIds \cap Subscribers) \ _entities :
          _entities' = _entities \cup {control_id}
    /\ UNCHANGED <<callVars, platformVars, hostVars, discVars, streamLeft, openWriters, registryVars,
                   storeVars, last_update_success, _state_checker_stop_event, pollVars,
                   kaVars>>

\* modify_alarm_control_panel_section_state storing the state it asks for,
\* without waiting for the controller to report it
ModifyBegin_optimistic ==
    /\ mainPc = "ready"
    /\ \/ /\ mainPc' = "command"
          /\ openWriters' = openWriters \cup {"host"}
          /\ \E state \in {STATE_ALARM_DISARMED, STATE_ALARM_ARMED_AWAY, STATE_ALARM_ARMED_NIGHT} :
                states' = Put(states, _create_section_alarm_id(1), state)
       \/ UNCHANGED <<mainPc, openWriters, states>>
    /\ UNCHANGED <<callVars, platformVars, initError, discVars, streamLeft, registryVars,
                   _entities, lastPoll, last_update_success, _state_checker_stop_event,
                   pollVars, kaVars>>

\* modify_alarm_control_panel_section_state: the packet is built and
\* _send_packet opens the line (or the open raises to the caller)
ModifyBegin ==
    /\ mainPc = "ready"
    /\ \/ mainPc' = "command" /\ openWriters' = openWriters \cup {"host"}
       \/ UNCHANGED <<mainPc, openWriters>>
    /\ UNCHANGED <<callVars, platformVars, initError, discVars, streamLeft, registryVars, _entities,
                   storeVars, last_update_success, _state_checker_stop_event, pollVars,
                   kaVars>>

\* _send_packet of the command: write, settle, close (or the write raises)
ModifyEnd ==
    /\ mainPc = "command"
    /\ mainPc' = "ready"
    /\ openWriters' = openWriters \ {"host"}
    /\ UNCHANGED <<callVars, platformVars, initError, discVars, streamLeft, registryVars,
                   _entities, storeVars, last_update_success, _state_checker_stop_event,
                   pollVars, kaVars>>

\* shutdown(): the stop signal is raised and _send_packet opens the line (or
\* the open raises out of shutdown)
Shutdown ==
    /\ mainPc = "ready"
    /\ _state_checker_stop_event' = TRUE
    /\ \/ mainPc' = "shutdown_send" /\ openWriters' = openWriters \cup {"host"}
       \/ mainPc' = "shutdown_raised" /\ UNCHANGED openWriters
    /\ UNCHANGED <<callVars, platformVars, initError, discVars, streamLeft, registryVars,
                   _entities, storeVars, last_update_success, pollVars, kaVars>>

\* shutdown(): the query is written and the line closed (or the write raises)
ShutdownSent ==
    /\ mainPc = "shutdown_send"
    /\ mainPc' \in {"shutdown_join", "shutdown_raised"}
    /\ openWriters' = openWriters \ {"host"}
    /\ UNCHANGED <<callVars, platformVars, initError, discVars, streamLeft, registryVars,
                   _entities, storeVars, last_update_success, _state_checker_stop_event,
                   pollVars, kaVars>>

\* shutdown(): _state_checker_thread_pool_executor.shutdown() returns once both
\* background tasks have ended
ShutdownJoin ==
    /\ mainPc = "shutdown_join"
    /\ pollPc \in {"done", "crashed"}
    /\ kaPc = "done"
    /\ mainPc' = "down"
    /\ UNCHANGED <<callVars, platformVars, initError, discVars, streamLeft, openWriters,
                   registryVars, _entities, storeVars, last_update_success,
                   _state_checker_stop_event, pollVars, kaVars>>

(***************************************************************************)
(* The poll task: _read_packets.                                           *)
(***************************************************************************)
\* the test of the outer while loop, then the clear of the inner loop and the
\* start of the blocking read; or stream.close() and the end of the task
PollLoopTest ==
    IF _state_checker_stop_event
    THEN pollPc' = "done" /\ UNCHANGED _state_checker_data_updating_event
    ELSE pollPc' = "read" /\ _state_checker_data_updating_event' = FALSE

\* line 438: stream = open(.., "rb"), outside every try block
PollOpen ==
    /\ pollPc = "open"
    /\ \/ /\ pollPc' = "crashed"
          /\ UNCHANGED <<streamLeft, _state_checker_data_updating_event>>
       \/ /\ streamLeft' = MaxPollReads
          /\ PollLoopTest
    /\ UNCHANGED <<callVars, platformVars, hostVars, discVars, openWriters, registryVars, _entities,
                   storeVars, last_update_success, _state_checker_stop_event, kaVars>>

\* lines 453-472 with a last branch that takes a packet of no known prefix for
\* a failed read
_read_packets_dispatch_strict(pkt) ==
    LET s0 == [states |-> states, calls |-> <<>>, last |-> <<>>]
        prefix == Slice(pkt, 0, 2)
        handled(s) ==
            [states |-> s.states,
             log |-> [kind |-> "packet", calls |-> s.calls, broadcast |-> {}],
             success |-> TRUE, break |-> TRUE]
    IN  IF pkt = <<>>
        THEN [states |-> states,
              log |-> [kind |-> "empty", calls |-> <<>>, broadcast |-> _entities],
              success |-> FALSE, break |-> TRUE]
        ELSE IF prefix = JABLOTRON_PACKET_SECTIONS_STATES_PREFIX
        THEN handled(_parse_section_states_packet(s0, pkt, byteorder))
        ELSE IF _is_device_state_packet(prefix)
        THEN handled(_parse_device_state_packet(s0, pkt, byteorder))
        ELSE IF Slice(pkt, 0, 1) = JABLOTRON_PACKET_DEVICES_STATES_PREFIX
        THEN handled(_parse_devices_states_packet(s0, pkt, byteorder, config))
        ELSE [states |-> states,
              log |-> [kind |-> "error", calls |-> <<>>, broadcast |-> _entities],
              success |-> FALSE, break |-> TRUE]

\* lines 453-472 for the packet just read: the new store, the log of the
\* step, the availability flag, and whether the inner loop is left (break)
\* or goes round to the next read
_read_packets_dispatch(pkt) ==
    LET s0 == [states |-> states, calls |-> <<>>, last |-> <<>>]
        prefix == Slice(pkt, 0, 2)
        handled(s) ==
            [states |-> s.states,
             log |-> [kind |-> "packet", calls |-> s.calls, broadcast |-> {}],
             success |-> TRUE, break |-> TRUE]
    IN  IF pkt = <<>>
        THEN [states |-> states,
              log |-> [kind |-> "empty", calls |-> <<>>, broadcast |-> _entities],
              success |-> FALSE, break |-> TRUE]
        ELSE IF prefix = JABLOTRON_PACKET_SECTIONS_STATES_PREFIX
        THEN handled(_parse_section_states_packet(s0, pkt, byteorder))
        ELSE IF _is_device_state_packet(prefix)
        THEN handled(_parse_device_state_packet(s0, pkt, byteorder))
        ELSE IF Slice(pkt, 0, 1) = JABLOTRON_PACKET_DEVICES_STATES_PREFIX
        THEN handled(_parse_devices_states_packet(s0, pkt, byteorder, config))
        ELSE [states |-> states,
              log |-> [kind |-> "ignored", calls |-> <<>>, broadcast |-> {}],
              success |-> TRUE, break |-> FALSE]

\* lines 448-472: stream.read returns a packet, the activity signal is set and
\* the packet is dispatched
PollRead ==
    /\ pollPc = "read"
    /\ streamLeft > 0
    /\ streamLeft' = streamLeft - 1
    /\ \E pkt \in Packets :
          LET r == _read_packets_dispatch(pkt)
          IN  /\ states' = r.states
              /\ lastPoll' = r.log
              /\ last_update_success' = r.success
              /\ pollPc' = IF r.break THEN "sleep" ELSE "ignored"
    /\ _state_checker_data_updating_event' = TRUE
    /\ UNCHANGED <<callVars, platformVars, hostVars, discVars, openWriters, registryVars, _entities,
                   _state_checker_stop_event, kaVars>>

\* lines 444-448 after a packet that no branch broke on: the inner loop clears
\* the activity signal and reads again, without a test of the stop signal
PollReadAgain ==
    /\ pollPc = "ignored"
    /\ pollPc' = "read"
    /\ _state_checker_data_updating_event' = FALSE
    /\ lastPoll' = NoPoll
    /\ UNCHANGED <<callVars, platformVars, hostVars, discVars, streamLeft, openWriters, registryVars,
                   _entities, states, last_update_success, _state_checker_stop_event,
                   kaVars>>

\* lines 474-477: stream.read raises; the except clause
PollReadFails ==
    /\ pollPc = "read"
    /\ last_update_success' = FALSE
    /\ lastPoll' = [kind |-> "error", calls |-> <<>>, broadcast |-> _entities]
    /\ pollPc' = "sleep"
    /\ UNCHANGED <<callVars, platformVars, hostVars, discVars, streamLeft, openWriters, registryVars,
                   _entities, states, _state_checker_stop_event,
                   _state_checker_data_updating_event, kaVars>>

\* line 479: time.sleep(0.5) is over; the outer loop test
PollWake ==
    /\ pollPc = "sleep"
    /\ PollLoopTest
    /\ lastPoll' = NoPoll
    /\ UNCHANGED <<callVars, platformVars, hostVars, discVars, streamLeft, openWriters, registryVars,
                   _entities, states, last_update_success, _state_checker_stop_event,
                   kaVars>>

(***************************************************************************)
(* The keepalive task: _keepalive.                                         *)
(***************************************************************************)
\* lines 496-498 with the reset one tick late
NextCounter_late == IF counter + 1 > KEEPALIVE_CYCLE THEN 0 ELSE counter + 1

\* lines 495-498
NextCounter == IF counter + 1 = KEEPALIVE_CYCLE THEN 0 ELSE counter + 1

\* the loop test, then wait(0.5) on the activity signal; when it times out the
\* keepalive packet is built and _send_packet opens the line; an error of the
\* open is caught (lines 492-493)
KeepaliveTick ==
    /\ kaPc = "tick"
    /\ IF _state_checker_stop_event
       THEN /\ kaPc' = "done"
            /\ UNCHANGED <<counter, kaTicks, openWriters>>
       ELSE /\ kaTicks < MaxTicks
            /\ kaTicks' = kaTicks + 1
            /\ IF _state_checker_data_updating_event
               THEN /\ counter' = NextCounter
                    /\ UNCHANGED <<kaPc, openWriters>>
               ELSE \/ /\ kaPc' = "sending"
                       /\ openWriters' = openWriters \cup {"keepalive"}
                       /\ UNCHANGED counter
                    \/ /\ counter' = NextCounter
                       /\ UNCHANGED <<kaPc, openWriters>>
    /\ UNCHANGED <<callVars, platformVars, hostVars, discVars, streamLeft, registryVars, _entities,
                   storeVars, last_update_success, _state_checker_stop_event, pollVars>>

\* _send_packet of the keepalive: write, settle, close (an error is caught);
\* then sleep(1) and the counter
KeepaliveSent ==
    /\ kaPc = "sending"
    /\ openWriters' = openWriters \ {"keepalive"}
    /\ counter' = NextCounter
    /\ kaPc' = "tick"
    /\ UNCHANGED <<callVars, platformVars, hostVars, discVars, streamLeft, registryVars, _entities,
                   storeVars, last_update_success, _state_checker_stop_event, pollVars,
                   kaTicks>>

(***************************************************************************)
(* Specifications.                                                         *)
(***************************************************************************)
Next ==
    \/ CallCheckSerialPort
    \/ CallInitialize
    \/ ReaderOpen
    \/ ReaderRead
    \/ ReaderReadFails
    \/ WriterLoop
    \/ WriterSent
    \/ DiscResult
    \/ DiscTimeout
    \/ DiscJoin
    \/ InitAfterCentral
    \/ InitAfterSections
    \/ InitFlag
    \/ Subscribe
    \/ ModifyBegin
    \/ ModifyEnd
    \/ Shutdown
    \/ ShutdownSent
    \/ ShutdownJoin
    \/ PollOpen
    \/ PollRead
    \/ PollReadAgain
    \/ PollReadFails
    \/ PollWake
    \/ KeepaliveTick
    \/ KeepaliveSent

Spec == Init /\ [][Next]_vars

\* the steps the scheduler owes each task: every step of the program that
\* waits neither for the line to deliver or fail nor for the host to call
ReaderProgress == ReaderOpen
WriterProgress == WriterLoop \/ WriterSent
CallerProgress ==
    DiscResult \/ DiscTimeout \/ DiscJoin \/ InitAfterCentral \/ InitAfterSections \/ InitFlag
    \/ ModifyEnd \/ ShutdownSent \/ ShutdownJoin
PollProgress == PollOpen \/ PollReadAgain \/ PollWake
KeepaliveProgress == KeepaliveTick \/ KeepaliveSent

FairSpec ==
    /\ Spec
    /\ WF_vars(ReaderProgress)
    /\ WF_vars(WriterProgress)
    /\ WF_vars(CallerProgress)
    /\ WF_vars(PollProgress)
    /\ WF_vars(KeepaliveProgress)

(***************************************************************************)
(* The keepalive loop on a silent line: the activity signal is never set,  *)
(* the stop signal is not raised and the line accepts every write.         *)
(***************************************************************************)
\* int.to_bytes(number, 1, byteorder=sys.byteorder), for number in 0..255
_int_to_bytes(number) == <<number>>

\* re.match(r"JA-10[13]", model): "JA-10" then 1 or 3, anything after
_is_small_central_unit(model) ==
    /\ Len(model) >= 6
    /\ SubSeq(model, 1, 5) = <<74, 65, 45, 49, 48>>
    /\ model[6] \in {49, 51}

\* the loop of _create_code_packet over the digits of the code
RECURSIVE CodeDigitsFrom(_, _)
CodeDigitsFrom(code_packet, code) ==
    IF code = <<>> THEN code_packet
    ELSE CodeDigitsFrom(code_packet \o _int_to_bytes(48 + Head(code)), Tail(code))

\* _create_code_packet with the two prefixes the wrong way round
_create_code_packet_swapped(code, model) ==
    CodeDigitsFrom(IF _is_small_central_unit(model)
                   THEN <<128, 8, 3, 48>> ELSE <<128, 8, 3, 57, 57, 57>>,
                   code)

_create_code_packet(code, model) ==
    CodeDigitsFrom(IF _is_small_central_unit(model)
                   THEN <<128, 8, 3, 57, 57, 57>> ELSE <<128, 8, 3, 48>>,
                   code)

\* _keepalive, lines 488-491: the packet of one iteration
_keepalive_packet(cnt, password, model) ==
    IF cnt = 0
    THEN _create_code_packet(password, model) \o <<82, 2, 19, 5, 154>>
    ELSE <<82, 1, 2>>

ModelJA101 == <<74, 65, 45, 49, 48, 49>>
ModelJA103 == <<74, 65, 45, 49, 48, 51>>
ModelJA106 == <<74, 65, 45, 49, 48, 54>>
ModelJA107 == <<74, 65, 45, 49, 48, 55>>

\* the sends (counted from 1) at which the line may fail: open() or write()
\* of _send_packet raises OSError
FailingSends == {1, 2, 61}

\* the object after initialize() on a controller with one section, the poll
\* task blocked in its read, the keepalive task at its loop test
KeepaliveInit ==
    LET reg == _create_devices(
                   RegisterSectionsFrom(
                       [alarm_control_panels |-> <<>>, section_problem_sensors |-> <<>>,
                        device_sensors |-> <<>>, device_problem_sensors |-> <<>>,
                        states |-> <<>>],
                       _parse_sections_states_packet(PktSectionsOne), 1, byteorder),
                   config)
    IN  /\ byteorder \in {"little", "big"}
        /\ config \in Configs
        /\ mainPc = "ready"
        /\ initError = None
        /\ discKind = "none"
        /\ discPc = "idle"
        /\ discExc = None
        /\ discStop = FALSE
        /\ discTimedOut = FALSE
        /\ rdPc = "none"
        /\ rdFields = NoFields
        /\ rdFuture = [st |-> "pending", val |-> Nothing]
        /\ wrPc = "none"
        /\ streamLeft = 0
        /\ openWriters = {}
        /\ _central_unit \in
              { Some([model |-> m, hardware_version |-> <<49>>, firmware_version |-> <<50>>]) :
                    m \in {ModelJA101, ModelJA106} }
        /\ _alarm_control_panels = reg.alarm_control_panels
        /\ _section_problem_sensors = reg.section_problem_sensors
        /\ _device_sensors = reg.device_sensors
        /\ _device_problem_sensors = reg.device_problem_sensors
        /\ _entities = Subscribers
        /\ states = reg.states
        /\ last_update_success = TRUE
        /\ _state_checker_stop_event = FALSE
        /\ _state_checker_data_updating_event = FALSE
        /\ pollPc = "read"
        /\ kaPc = "tick"
        /\ counter = 0
        /\ kaTicks = 0
        /\ lastPoll = NoPoll
        /\ fnCall \in {[fn |-> "_keepalive", fails |-> f] : f \in SUBSET FailingSends}
        /\ fnRet = Some(<<>>)

\* one iteration of _keepalive: the loop test, wait(0.5) times out, the packet
\* is sent (fnRet logs the packets sent), sleep(1), the counter
KeepaliveIteration ==
    /\ fnCall.fn = "_keepalive"
    /\ kaPc = "tick"
    /\ ~_state_checker_stop_event
    /\ ~_state_checker_data_updating_event
    /\ Len(fnRet.v) < MaxKeepaliveIterations
    /\ Len(fnRet.v) + 1 \notin fnCall.fails
    /\ fnRet' = Some(Append(fnRet.v,
                            _keepalive_packet(counter, config.password, _central_unit.v.model)))
    /\ counter' = NextCounter
    /\ UNCHANGED <<fnCall, platformVars, hostVars, discVars, streamLeft, openWriters,
                   registryVars, _entities, storeVars, last_update_success,
                   _state_checker_stop_event, pollVars, kaPc, kaTicks>>

\* an iteration whose _send_packet raises and whose error is not caught: the
\* task ends with it
KeepaliveIterationFails_uncaught ==
    /\ fnCall.fn = "_keepalive"
    /\ kaPc = "tick"
    /\ ~_state_checker_stop_event
    /\ ~_state_checker_data_updating_event
    /\ Len(fnRet.v) < MaxKeepaliveIterations
    /\ Len(fnRet.v) + 1 \in fnCall.fails
    /\ fnRet' = Some(Append(fnRet.v,
                            _keepalive_packet(counter, config.password, _central_unit.v.model)))
    /\ kaPc' = "crashed"
    /\ UNCHANGED <<fnCall, platformVars, hostVars, discVars, streamLeft, openWriters,
                   registryVars, _entities, storeVars, last_update_success,
                   _state_checker_stop_event, pollVars, counter, kaTicks>>

\* one iteration of _keepalive whose _send_packet raises (fnRet logs the
\* packet it was given): the except clause of lines 492-493 logs the error,
\* then sleep(1) and the counter as in every iteration
KeepaliveIterationFails ==
    /\ fnCall.fn = "_keepalive"
    /\ kaPc = "tick"
    /\ ~_state_checker_stop_event
    /\ ~_state_checker_data_updating_event
    /\ Len(fnRet.v) < MaxKeepaliveIterations
    /\ Len(fnRet.v) + 1 \in fnCall.fails
    /\ fnRet' = Some(Append(fnRet.v,
                            _keepalive_packet(counter, config.password, _central_unit.v.model)))
    /\ counter' = NextCounter
    /\ UNCHANGED <<fnCall, platformVars, hostVars, discVars, streamLeft, openWriters,
                   registryVars, _entities, storeVars, last_update_success,
                   _state_checker_stop_event, pollVars, kaPc, kaTicks>>

KeepaliveNext ==
    \/ KeepaliveIteration
    \/ KeepaliveIterationFails

KeepaliveSpec == KeepaliveInit /\ [][KeepaliveNext]_vars

(***************************************************************************)
(* Functions of the module called on their own: the call is drawn at the   *)
(* start, one step applies the function and keeps what it returns.         *)
(***************************************************************************)
\* the sequences over S of length at most n
SeqsOf(S, n) == UNION {[1..k -> S] : k \in 0..n}

\* reader_thread of a discovery call on the packets the line delivers within
\* the caller's timeout, from the n-th on: the loop of lines 291-308, and the
\* value returned when the loop is left; when the packets run out the reader
\* is still blocked in its read
RECURSIVE ReaderRun(_, _, _, _)
ReaderRun(kind, fields, packets, n) ==
    IF n = Len(packets) THEN [done |-> FALSE, read |-> n, value |-> Nothing]
    ELSE LET r == ReaderScan(kind, fields, packets[n + 1])
         IN  IF r.break
             THEN [done |-> TRUE, read |-> n + 1, value |-> ReaderValue(kind, r.fields)]
             ELSE ReaderRun(kind, r.fields, packets, n + 1)

\* replies to JABLOTRON_PACKET_GET_INFO, and packets in between
IdentityPackets == {PktModel101, PktHardware, PktFirmware, PktOther, PktModelBad, PktModel80}

ReaderCalls ==
    {[fn |-> "reader_thread", packets |-> ps] : ps \in SeqsOf(IdentityPackets, MaxStream)}

\* every state byte, with tertiary bytes off, on and neither
AlarmCalls ==
    {[fn |-> "alarm_state", section_state |-> <<a, b>>] : a \in 0..255, b \in {0, 1, 2, 255}}

\* int_packets of modify_alarm_control_panel_section_state
int_packets(state) ==
    IF state = STATE_ALARM_DISARMED THEN 143
    ELSE IF state = STATE_ALARM_ARMED_AWAY THEN 159
    ELSE 175

\* modify_alarm_control_panel_section_state on a controller of the given
\* model: the packet handed to _send_packet; code is Nothing for None
modify_alarm_control_panel_section_state(section, state, code, password, model) ==
    LET used == IF ~code.some THEN password ELSE code.v
        state_packet == _int_to_bytes(int_packets(state) + section)
    IN  _create_code_packet(used, model) \o <<128, 2, 13>> \o state_packet

ModifyCalls ==
    {[fn |-> "modify_alarm_control_panel_section_state",
      section |-> section, state |-> state, code |-> code, model |-> model] :
        section \in 1..MAX_SECTIONS,
        state \in {STATE_ALARM_DISARMED, STATE_ALARM_ARMED_AWAY, STATE_ALARM_ARMED_NIGHT},
        code \in {Nothing, Some(<<9, 8>>), Some(<<0>>)},
        model \in {ModelJA101, ModelJA103, ModelJA106, ModelJA107}}

\* the State Store a packet handler is called on: device n tracked with a
\* state (and its problem sensor off), or device n unknown to the store
StoresOf(n) ==
    {<<>>}
    \cup {Put(Put(<<>>, _create_device_sensor_id(n), st),
              _create_device_problem_sensor_id(n), STATE_OFF) : st \in {STATE_ON, STATE_OFF}}

\* bytes 4-5 of single-device packets: 64 * n in little-endian order for n
\* in 1, 32, 33, 90, 96, 97, 100
DeviceNumberBytes ==
    {<<64, 0>>, <<0, 8>>, <<64, 8>>, <<128, 22>>, <<0, 24>>, <<64, 24>>, <<0, 25>>}

\* the device number _parse_device_number_from_state_packet reads from them
NumberIn(number_bytes) ==
    IF byteorder = "little"
    THEN (number_bytes[1] + 256 * number_bytes[2]) \div 64
    ELSE (number_bytes[2] + 256 * number_bytes[1]) \div 64

\* single-device packets 55 08 / 55 09 with every state code at byte 3; the
\* device's listeners are subscribed
DeviceStateCalls ==
    {[fn |-> "_parse_device_state_packet",
      packet |-> <<85, wired, b2, b3>> \o nb,
      number_bytes |-> nb,
      states |-> st,
      entities |-> {_create_device_sensor_id(n) : n \in {1, 32, 33, 90, 96, 97, 100}}] :
        wired \in {8, 9}, b2 \in {0, 5, 134}, b3 \in 0..255, nb \in DeviceNumberBytes,
        st \in UNION {StoresOf(n) : n \in {1, 90}}}

\* values of one byte of the bit-vector of a d8 packet
BitBytes == {0, 1, 2, 3, 6, 128, 129, 255}

\* what follows the bit-vector: nothing, or a single-device packet (device 1
\* on / off with a fault / unknown code, device 2 on)
TrailingPackets ==
    {<<>>, <<85, 8, 0, 108, 64, 0>>, <<85, 9, 5, 110, 64, 0>>, <<85, 8, 0, 1, 64, 0>>,
     <<85, 8, 0, 112, 128, 0>>}

\* the store after _create_devices for n devices: every sensor off
SeededStore(n) ==
    [id \in {_create_device_sensor_id(i) : i \in 1..n}
            \cup {_create_device_problem_sensor_id(i) : i \in 1..n} |-> STATE_OFF]

\* d8 packets with one or two bit bytes and a length byte 2 or 3, for
\* installations of 2 and of 9 devices
DevicesStatesCalls ==
    {[fn |-> "_parse_devices_states_packet",
      packet |-> <<216, b1, 0>> \o bits \o trailing,
      cfg |-> [number_of_devices |-> n],
      states |-> st,
      entities |-> {_create_device_sensor_id(i) : i \in 1..n}] :
        b1 \in {2, 3},
        bits \in {<<b>> : b \in BitBytes} \cup {<<b, c>> : b \in BitBytes, c \in BitBytes},
        trailing \in TrailingPackets,
        n \in {2, 9},
        st \in {<<>>, SeededStore(9)}}

Calls ==
    ReaderCalls \cup AlarmCalls \cup ModifyCalls \cup DeviceStateCalls \cup DevicesStatesCalls

\* the object as constructed, with the listeners the call is made with
CodecInit ==
    /\ byteorder \in {"little", "big"}
    /\ config \in Configs
    /\ mainPc = "start"
    /\ initError = None
    /\ discKind = "none"
    /\ discPc = "idle"
    /\ discExc = None
    /\ discStop = FALSE
    /\ discTimedOut = FALSE
    /\ rdPc = "none"
    /\ rdFields = NoFields
    /\ rdFuture = [st |-> "pending", val |-> Nothing]
    /\ wrPc = "none"
    /\ streamLeft = 0
    /\ openWriters = {}
    /\ _central_unit = Nothing
    /\ _alarm_control_panels = <<>>
    /\ _section_problem_sensors = <<>>
    /\ _device_sensors = <<>>
    /\ _device_problem_sensors = <<>>
    /\ fnCall \in Calls
    /\ _entities = IF "entities" \in DOMAIN fnCall THEN fnCall.entities ELSE {}
    /\ states = <<>>
    /\ last_update_success = FALSE
    /\ _state_checker_stop_event = FALSE
    /\ _state_checker_data_updating_event = FALSE
    /\ pollPc = "idle"
    /\ kaPc = "idle"
    /\ counter = 0
    /\ kaTicks = 0
    /\ lastPoll = NoPoll
    /\ fnRet = Nothing

\* what every such step leaves alone: the object
CodecFrame ==
    UNCHANGED <<fnCall, platformVars, hostVars, discVars, streamLeft, openWriters,
                registryVars, _entities, storeVars, last_update_success,
                _state_checker_stop_event, pollVars, kaVars>>

\* _detect_central_unit's reader_thread on fnCall.packets
ApplyReader ==
    /\ fnCall.fn = "reader_thread"
    /\ fnRet = Nothing
    /\ fnRet' = Some(ReaderRun("central", NoFields, fnCall.packets, 0))
    /\ CodecFrame

\* the two conversions of a section's byte pair (lines 523 and 528)
ApplyAlarmState ==
    /\ fnCall.fn = "alarm_state"
    /\ fnRet = Nothing
    /\ fnRet' = Some([alarm |-> _convert_jablotron_alarm_state_to_alarm_state(
                                    fnCall.section_state, byteorder),
                      problem |-> _convert_jablotron_alarm_state_to_problem_sensor_state(
                                      fnCall.section_state, byteorder)])
    /\ CodecFrame

\* modify_alarm_control_panel_section_state: the packet it sends
ApplyModify ==
    /\ fnCall.fn = "modify_alarm_control_panel_section_state"
    /\ fnRet = Nothing
    /\ fnRet' = Some(modify_alarm_control_panel_section_state(
                         fnCall.section, fnCall.state, fnCall.code, config.password,
                         fnCall.model))
    /\ CodecFrame

\* _parse_device_state_packet on the store of the call: the store after it and
\* the calls of _update_state it made
ApplyDeviceState ==
    /\ fnCall.fn = "_parse_device_state_packet"
    /\ fnRet = Nothing
    /\ fnRet' = Some(_parse_device_state_packet(
                         [states |-> fnCall.states, calls |-> <<>>, last |-> <<>>],
                         fnCall.packet, byteorder))
    /\ CodecFrame

\* _parse_devices_states_packet on the store and the configuration of the call
ApplyDevicesStates ==
    /\ fnCall.fn = "_parse_devices_states_packet"
    /\ fnRet = Nothing
    /\ fnRet' = Some(_parse_devices_states_packet(
                         [states |-> fnCall.states, calls |-> <<>>, last |-> <<>>],
                         fnCall.packet, byteorder, fnCall.cfg))
    /\ CodecFrame

CodecNext ==
    \/ ApplyReader
    \/ ApplyAlarmState
    \/ ApplyModify
    \/ ApplyDeviceState
    \/ ApplyDevicesStates

CodecSpec == CodecInit /\ [][CodecNext]_vars

(***************************************************************************)
(* Properties.                                                             *)
(***************************************************************************)
\* initialize() has returned without an error
Initialized ==
    mainPc \in {"ready", "command", "shutdown_send", "shutdown_join", "shutdown_raised", "down"}

\* C1: once initialize() has completed, every Control id of the Entity
\* Registry (alarm sections, section problem sensors, device sensors, device
\* problem sensors) is a key of the State Store, whatever packets the poll
\* task has handled since.
C1_RegistryIdsHaveStates ==
    Initialized => \A id \in ControlIds : id \in DOMAIN states

\* C1 witness: after initialize() the poll task has handled a packet that
\* called _update_state, with Controls registered.
C1_Witness ==
    /\ Initialized
    /\ ControlIds # {}
    /\ lastPoll.kind = "packet"
    /\ lastPoll.calls # <<>>

\* C2: once the stop signal is raised, the poll task does not enter another
\* blocking read: when its pending read returns, whatever the packet, it goes
\* on to the test of the stop signal and ends.
C2_StopEndsPollAfterPendingRead ==
    [][(_state_checker_stop_event /\ pollPc # "read") => pollPc' # "read"]_vars

\* C3: when a discovery call has returned control to its caller (with a
\* result or an error), its stop signal is raised and neither its reader task
\* nor its writer task is still running.
C3_NoTaskOutlivesDiscovery ==
    /\ discPc = "returned" => discStop
    /\ discPc \in {"returned", "idle"} =>
          rdPc \in {"none", "done"} /\ wrPc \in {"none", "done"}

\* C3 witness: a discovery call has returned after its wait timed out, its
\* tasks having run.
C3_Witness == discPc = "returned" /\ discTimedOut /\ discStop /\ rdPc = "done"

\* C4: a discovery call whose wait for the reader times out (here: on an
\* interpreter where the timeout is turned into ServiceUnavailable)
\* eventually returns control to the caller with ServiceUnavailable.
C4_TimeoutReturnsServiceUnavailable ==
    (discTimedOut /\ discExc = "ServiceUnavailable")
        ~> (discPc = "returned" /\ discExc = "ServiceUnavailable")

\* C5: the poll task is never ended by an I/O failure: it has ended only
\* if the stop signal has been raised.
C5_PollEndsOnlyOnStop ==
    pollPc \in {"done", "crashed"} => _state_checker_stop_event

\* C6: at most one task is between the open and the close of a write to the
\* serial line.
C6_WritesMutuallyExclusive == Cardinality(openWriters) <= 1

\* C7: a call of _update_state notifies the id's listener exactly when a
\* listener is subscribed and the stored value changes; a call that repeats
\* the call just before it (same id, same state) finds the value stored, so it
\* neither changes the store nor notifies; and the store holds the state of
\* the latest call for each id.
C7_NotifyOnlyOnChange ==
    \A i \in DOMAIN lastPoll.calls :
        LET c == lastPoll.calls[i]
        IN  /\ c.notified <=> (c.subscribed /\ c.old # c.state)
            /\ c.again => (c.old = c.state /\ ~c.notified)
            /\ (\A j \in DOMAIN lastPoll.calls : j > i => lastPoll.calls[j].id # c.id)
                  => (c.id \in DOMAIN states /\ states[c.id] = c.state)

\* C7 witness: the same state was applied to the same subscribed id twice in
\* a row; the first call changed the value and notified, the second did not.
C7_Witness ==
    \E i \in DOMAIN lastPoll.calls :
        /\ i > 1
        /\ lastPoll.calls[i].again
        /\ lastPoll.calls[i].subscribed
        /\ ~lastPoll.calls[i].notified
        /\ lastPoll.calls[i - 1].notified
        /\ lastPoll.calls[i - 1].old # lastPoll.calls[i - 1].state

\* C8: when check_serial_port has returned after its wait timed out with no
\* model read, the error it raised is ModelNotDetected.
C8_NoModelIsModelNotDetected ==
    (discKind = "check" /\ discPc = "returned" /\ discTimedOut /\ ~rdFields.model.some)
        => discExc = "ModelNotDetected"

\* C9 as stated: initialize() never completes successfully with a
\* CentralUnit whose model is not of a supported family.
C9_InitializeRejectsUnsupportedModel ==
    Initialized => ModelSupported(_central_unit.v.model)

\* the caller of check_serial_port got the reader's model
CheckGotModel ==
    /\ discKind = "check"
    /\ discPc \in {"joining", "returned"}
    /\ ~discTimedOut
    /\ rdFuture.st = "result"
    /\ rdFuture.val.some

\* C9 as amended: when the model string check_serial_port reads does not
\* match JA-10[1367], check_serial_port fails with ModelNotSupported, and it
\* passes only with a model that matches.
C9_CheckRejectsUnsupportedModel ==
    /\ (CheckGotModel /\ ~ModelSupported(rdFuture.val.v)) => discExc = "ModelNotSupported"
    /\ (CheckGotModel /\ discExc = None) => ModelSupported(rdFuture.val.v)

\* C9 witness: check_serial_port has read an unsupported model and returned
\* with ModelNotSupported.
C9_Witness ==
    /\ CheckGotModel
    /\ discPc = "returned"
    /\ ~ModelSupported(rdFuture.val.v)
    /\ discExc = "ModelNotSupported"

\* C10: when initialize() has failed in a discovery step, it has raised the
\* error of that step, the Entity Registry and the State Store are empty, no
\* background task has been started and lastUpdateSucceeded is still false.
C10_FailedInitializeLeavesNothing ==
    mainPc = "failed" =>
        /\ initError # None
        /\ initError = discExc
        /\ ControlIds = {}
        /\ DOMAIN states = {}
        /\ pollPc = "idle"
        /\ kaPc = "idle"
        /\ ~last_update_success

\* C10 witness: initialize() has failed in _detect_sections, after
\* _detect_central_unit had succeeded.
C10_Witness == mainPc = "failed" /\ discKind = "sections" /\ _central_unit.some


\* C11: on a silent line (the activity signal never set) the keepalive task
\* sends, in every cycle of 60 iterations, the code packet followed by
\* 52 02 13 05 9a at tick 0 and the bare probe 52 01 02 at each of the other
\* 59 ticks, and its counter stays in 0..59.
C11_KeepaliveCycle ==
    /\ counter \in 0..59
    /\ fnCall.fn = "_keepalive" =>
          LET log == fnRet.v
              prefix == IF _central_unit.v.model = ModelJA101
                        THEN <<128, 8, 3, 57, 57, 57>> ELSE <<128, 8, 3, 48>>
              code == [i \in 1..Len(config.password) |-> 48 + config.password[i]]
          IN  /\ counter = Len(log) % 60
              /\ \A i \in 1..Len(log) :
                    IF (i - 1) % 60 = 0
                    THEN log[i] = prefix \o code \o <<82, 2, 19, 5, 154>>
                    ELSE log[i] = <<82, 1, 2>>

\* C11 witness: two full cycles have passed and the third has begun with the
\* code packet.
C11_Witness ==
    /\ fnCall.fn = "_keepalive"
    /\ Len(fnRet.v) >= 121
    /\ fnRet.v[121] # <<82, 1, 2>>
    /\ fnRet.v[120] = <<82, 1, 2>>
    /\ counter = Len(fnRet.v) % 60


\* the place of packet p in the stream of the call
PlaceOf(p) == CHOOSE i \in DOMAIN fnCall.packets : fnCall.packets[i] = p

\* each of the three identity replies arrives once, no other model reply does
IdentityRepliesArrive ==
    /\ fnCall.fn = "reader_thread"
    /\ \A p \in {PktModel101, PktHardware, PktFirmware} :
          Cardinality({i \in DOMAIN fnCall.packets : fnCall.packets[i] = p}) = 1
    /\ \A i \in DOMAIN fnCall.packets : fnCall.packets[i] # PktModel80

\* C12: when the replies for model, hardware version and firmware version
\* arrive in any order, with other packets in between, the reader returns a
\* CentralUnit holding the received strings ("JA-101", "1", "2"), and it stops
\* at the packet that brought the third field, reading nothing after it.
C12_IdentityInAnyOrder ==
    (IdentityRepliesArrive /\ fnRet.some) =>
        /\ fnRet.v.done
        /\ fnRet.v.value = Some([model |-> <<74, 65, 45, 49, 48, 49>>,
                                 hardware_version |-> <<49>>,
                                 firmware_version |-> <<50>>])
        /\ \A p \in {PktModel101, PktHardware, PktFirmware} : PlaceOf(p) <= fnRet.v.read
        /\ \E p \in {PktModel101, PktHardware, PktFirmware} : PlaceOf(p) = fnRet.v.read

\* C12 witness: firmware, then an unrelated packet, then hardware, then model;
\* the reader has returned after the fourth packet.
C12_Witness ==
    /\ fnCall.fn = "reader_thread"
    /\ fnCall.packets = <<PktFirmware, PktOther, PktHardware, PktModel101>>
    /\ fnRet.some
    /\ fnRet.v.done
    /\ fnRet.v.read = 4


\* C13: for a section byte pair (stateByte, tertiaryByte), with
\* primary = stateByte mod 16 and secondary = (stateByte - primary) / 16, the
\* alarm state is the first match of: secondary 8 -> arming; secondary 4 ->
\* pending; secondary 1 -> triggered; primary 3 with tertiary 1 -> triggered;
\* primary 3 -> armed away; primary 2 -> armed night; else disarmed; and the
\* problem sensor is on iff secondary = 2.
C13_AlarmPrecedence ==
    (fnCall.fn = "alarm_state" /\ fnRet.some) =>
        LET stateByte == fnCall.section_state[1]
            tertiaryByte == fnCall.section_state[2]
            primary == stateByte % 16
            secondary == (stateByte - primary) \div 16
        IN  /\ fnRet.v.alarm =
                  (IF secondary = 8 THEN STATE_ALARM_ARMING
                   ELSE IF secondary = 4 THEN STATE_ALARM_PENDING
                   ELSE IF secondary = 1 THEN STATE_ALARM_TRIGGERED
                   ELSE IF primary = 3 /\ tertiaryByte = 1 THEN STATE_ALARM_TRIGGERED
                   ELSE IF primary = 3 THEN STATE_ALARM_ARMED_AWAY
                   ELSE IF primary = 2 THEN STATE_ALARM_ARMED_NIGHT
                   ELSE STATE_ALARM_DISARMED)
            /\ fnRet.v.problem = (IF secondary = 2 THEN STATE_ON ELSE STATE_OFF)

\* C13 witness: the pair (0x23, 0x00) has given armed away with the problem
\* sensor on.
C13_Witness ==
    /\ fnCall.fn = "alarm_state"
    /\ fnCall.section_state = <<35, 0>>
    /\ fnRet.some
    /\ fnRet.v.alarm = STATE_ALARM_ARMED_AWAY
    /\ fnRet.v.problem = STATE_ON


\* C14: after initialize() on a section-states reply with its first 07 00 at
\* slot k, the registry holds the sections 1..k-1, each with its alarm entry
\* and its problem sensor, and neither the registry nor the State Store holds
\* a section numbered k or above, whatever section-states packets the poll
\* task has handled since.
C14_NoSectionBeyondSentinel ==
    Initialized =>
        LET registered == Len(_alarm_control_panels)
        IN  /\ Len(_section_problem_sensors) = registered
            /\ \A i \in 1..registered :
                  /\ _alarm_control_panels[i] =
                        [section |-> i, id |-> _create_section_alarm_id(i)]
                  /\ _section_problem_sensors[i] = _create_section_problem_sensor_id(i)
            /\ \A j \in (registered + 1)..(MAX_SECTIONS + 1) :
                  /\ _create_section_alarm_id(j) \notin DOMAIN states
                  /\ _create_section_problem_sensor_id(j) \notin DOMAIN states


\* the ids of the alarm sections that can be stored
SectionAlarmIds == {_create_section_alarm_id(j) : j \in 1..MAX_SECTIONS}

CommandBytes ==
    <<128, 2, 13>>
    \o <<(IF fnCall.state = STATE_ALARM_DISARMED THEN 143
          ELSE IF fnCall.state = STATE_ALARM_ARMED_AWAY THEN 159 ELSE 175) + fnCall.section>>

\* the access-code packet of the claim for the digits of `code`
CodeBytes(code) ==
    (IF fnCall.model \in {ModelJA101, ModelJA103}
     THEN <<128, 8, 3, 57, 57, 57>> ELSE <<128, 8, 3, 48>>)
    \o [i \in 1..Len(code) |-> 48 + code[i]]

\* C16 as stated: the bytes sent are the command bytes, with the access-code
\* packet of the configured code prepended unless the caller supplies a code,
\* and then nothing prepended.
C16_CodePacketUnlessOverride ==
    (fnCall.fn = "modify_alarm_control_panel_section_state" /\ fnRet.some) =>
        fnRet.v = (IF fnCall.code.some THEN <<>> ELSE CodeBytes(config.password))
                  \o CommandBytes

\* C16 as amended: the bytes sent are always an access-code packet followed
\* by the command bytes; the access-code packet encodes the caller's code when
\* one is supplied and the configured code otherwise.
C16_CodePacketAlways ==
    (fnCall.fn = "modify_alarm_control_panel_section_state" /\ fnRet.some) =>
        fnRet.v = CodeBytes(IF fnCall.code.some THEN fnCall.code.v ELSE config.password)
                  \o CommandBytes

\* C16 witness: arm away of section 2 on a JA-106 with the caller's code "98"
\* has sent 80 08 03 30 39 38 80 02 0d a1.
C16_Witness ==
    /\ fnCall.fn = "modify_alarm_control_panel_section_state"
    /\ fnCall.code = Some(<<9, 8>>)
    /\ fnCall.model = ModelJA106
    /\ fnRet = Some(<<128, 8, 3, 48, 57, 56, 128, 2, 13, 161>>)


\* C17: after initialize(), whatever packets the poll task has handled, the
\* State Store holds no device sensor and no device problem sensor entry for
\* a device configured as keypad, siren or other, and no key that is not the
\* id of a registered Control.
C17_NoStateForExcludedDevices ==
    Initialized =>
        /\ \A i \in 1..config.number_of_devices :
              config.devices[i] \in {DEVICE_KEYPAD, DEVICE_SIREN, DEVICE_OTHER} =>
                  /\ _create_device_sensor_id(i) \notin DOMAIN states
                  /\ _create_device_problem_sensor_id(i) \notin DOMAIN states
        /\ DOMAIN states \subseteq ControlIds


\* the device a single-device packet names, its state code and the base of
\* its codes, as the claim gives them
DeviceOfCall == NumberIn(fnCall.number_bytes)
RawOfCall == fnCall.packet[4]
BaseOfCall ==
    LET n == DeviceOfCall
        correction == IF n <= 32 THEN 0 ELSE IF n <= 96 THEN -64 ELSE -128
    IN  (n + correction) * 4 + 104

\* C18: for a single-device packet for device n with state code raw (byte 3),
\* the device's stored state becomes on if raw is base or base + 1, off if raw
\* is base + 2, and for any other raw the device's sensor entry is not written
\* (it stays as it was, or absent) and no call is made for it.
C18_DeviceStateCodes ==
    (fnCall.fn = "_parse_device_state_packet" /\ fnRet.some) =>
        LET id == _create_device_sensor_id(DeviceOfCall)
            after == fnRet.v.states
        IN  IF RawOfCall \in {BaseOfCall, BaseOfCall + 1}
            THEN id \in DOMAIN after /\ after[id] = STATE_ON
            ELSE IF RawOfCall = BaseOfCall + 2
            THEN id \in DOMAIN after /\ after[id] = STATE_OFF
            ELSE /\ (id \in DOMAIN after) = (id \in DOMAIN fnCall.states)
                 /\ id \in DOMAIN after => after[id] = fnCall.states[id]
                 /\ \A i \in DOMAIN fnRet.v.calls : fnRet.v.calls[i].id # id

\* C18 witness: device 1, stored as on with a listener, got a packet with a
\* state code that is none of 108, 109, 110: its entry is still on and no call
\* was made for it.
C18_Witness ==
    /\ fnCall.fn = "_parse_device_state_packet"
    /\ fnRet.some
    /\ DeviceOfCall = 1
    /\ RawOfCall = 1
    /\ _create_device_sensor_id(1) \in DOMAIN fnCall.states
    /\ fnCall.states[_create_device_sensor_id(1)] = STATE_ON
    /\ fnRet.v.states[_create_device_sensor_id(1)] = STATE_ON
    /\ \A i \in DOMAIN fnRet.v.calls : fnRet.v.calls[i].id # _create_device_sensor_id(1)

\* the fixed fault codes
FaultCodes == {5, 6, 134, 168}

\* C19 as stated: a single-device packet sets the device's problem sensor to
\* on iff its state-code byte (byte 3, the byte of the on/off decoding) is a
\* fault code, and to off otherwise.
C19_ProblemFromStateCode ==
    (fnCall.fn = "_parse_device_state_packet" /\ fnRet.some) =>
        LET id == _create_device_problem_sensor_id(DeviceOfCall)
        IN  /\ id \in DOMAIN fnRet.v.states
            /\ fnRet.v.states[id] = (IF fnCall.packet[4] \in FaultCodes THEN STATE_ON
                                     ELSE STATE_OFF)

\* C19 as amended: a single-device packet sets the device's problem sensor to
\* on iff byte 2 of the packet, the byte before the state code, is a fault
\* code, and to off otherwise.
C19_ProblemFromByteTwo ==
    (fnCall.fn = "_parse_device_state_packet" /\ fnRet.some) =>
        LET id == _create_device_problem_sensor_id(DeviceOfCall)
        IN  /\ id \in DOMAIN fnRet.v.states
            /\ fnRet.v.states[id] = (IF fnCall.packet[3] \in FaultCodes THEN STATE_ON
                                     ELSE STATE_OFF)

\* C19 witness: a packet with byte 2 = 05 and the state code 6e (device 1
\* off) has set the problem sensor of device 1 to on.
C19_Witness ==
    /\ fnCall.fn = "_parse_device_state_packet"
    /\ fnRet.some
    /\ fnCall.packet = <<85, 8, 5, 110, 64, 0>>
    /\ byteorder = "little"
    /\ fnRet.v.states[_create_device_problem_sensor_id(1)] = STATE_ON
    /\ fnRet.v.states[_create_device_sensor_id(1)] = STATE_OFF


\* bit k (value 2^k) of a byte
BitOf(byte, k) == (byte \div (2 ^ k)) % 2

\* the bytes a1..a2-1 of the d8 packet of the call (0-based, as in the source)
BytesOfCall(a1, a2) ==
    [j \in 1..(Min(a2, Len(fnCall.packet)) - a1) |-> fnCall.packet[a1 + j]]

\* C20 as stated: byte1 is the place of the trailing packet, bytes 3..byte1-1
\* are one big-endian integer, and device i is on iff the i-th bit, counted
\* from 1 from the low end, is set.
C20_BigEndianOneBased ==
    (fnCall.fn = "_parse_devices_states_packet" /\ fnRet.some) =>
        LET offset == fnCall.packet[2]
            bytes == BytesOfCall(3, offset)
            bit(i) == IF i > 8 * Len(bytes) THEN 0
                      ELSE BitOf(bytes[Len(bytes) - ((i - 1) \div 8)], (i - 1) % 8)
        IN  \A i \in 1..fnCall.cfg.number_of_devices :
                /\ _create_device_sensor_id(i) \in DOMAIN fnRet.v.states
                /\ fnRet.v.states[_create_device_sensor_id(i)] =
                       (IF bit(i) = 1 THEN STATE_ON ELSE STATE_OFF)

\* C20 as amended: the bit bytes are bytes 3..byte1+1 and the trailing packet
\* starts at byte1 + 2; the bytes are one integer in the platform's byte
\* order; device i is on iff bit 2^i of it is set (so on a little-endian
\* platform bit i % 8 of bit byte i \div 8), off otherwise and when the bytes
\* hold no such bit; a trailing single-device packet is decoded first, so its
\* problem sensor is written and its device state is overridden by the bits.
C20_NativeOrderBitI ==
    (fnCall.fn = "_parse_devices_states_packet" /\ fnRet.some) =>
        LET start == fnCall.packet[2] + 2
            bytes == BytesOfCall(3, start)
            trailing == BytesOfCall(start, Len(fnCall.packet))
            place(i) == IF byteorder = "little" THEN (i \div 8) + 1
                        ELSE Len(bytes) - (i \div 8)
            bit(i) == IF i >= 8 * Len(bytes) THEN 0 ELSE BitOf(bytes[place(i)], i % 8)
        IN  /\ \A i \in 1..fnCall.cfg.number_of_devices :
                /\ _create_device_sensor_id(i) \in DOMAIN fnRet.v.states
                /\ fnRet.v.states[_create_device_sensor_id(i)] =
                       (IF bit(i) = 1 THEN STATE_ON ELSE STATE_OFF)
            /\ (Len(trailing) >= 6 /\ trailing[1] = 85 /\ trailing[2] \in {8, 9}) =>
                LET id == _create_device_problem_sensor_id(NumberIn(<<trailing[5], trailing[6]>>))
                IN  /\ id \in DOMAIN fnRet.v.states
                    /\ fnRet.v.states[id] = (IF trailing[3] \in FaultCodes THEN STATE_ON
                                             ELSE STATE_OFF)

\* C20 witness: on a little-endian platform d8 03 00 02 01 followed by
\* 55 09 05 6e 40 00 (device 1 off, fault) on a 9-device installation has set
\* device 1 on (bit 1 of the first bit byte), device 8 on (bit 0 of the
\* second), device 2 off, and the problem sensor of device 1 on.
C20_Witness ==
    /\ fnCall.fn = "_parse_devices_states_packet"
    /\ fnRet.some
    /\ byteorder = "little"
    /\ fnCall.packet = <<216, 3, 0, 2, 1, 85, 9, 5, 110, 64, 0>>
    /\ fnCall.cfg.number_of_devices = 9
    /\ fnRet.v.states[_create_device_sensor_id(1)] = STATE_ON
    /\ fnRet.v.states[_create_device_sensor_id(8)] = STATE_ON
    /\ fnRet.v.states[_create_device_sensor_id(2)] = STATE_OFF
    /\ fnRet.v.states[_create_device_problem_sensor_id(1)] = STATE_ON


\* the packets of the line that are not empty and start with none of 51 22,
\* 55 08, 55 09, d8
UnrecognizedPackets ==
    {pkt \in Packets :
        /\ Len(pkt) > 0
        /\ pkt[1] # 216
        /\ ~(Len(pkt) >= 2 /\ <<pkt[1], pkt[2]>> \in {<<81, 34>>, <<85, 8>>, <<85, 9>>})}

\* C21: a non-empty packet with no recognized prefix is ignored by the poll
\* loop: whenever the poll task reads one, the availability flag is set to
\* true (not false), the State Store is as before, no _update_state call and
\* no broadcast to the listeners is made, and the loop does not leave for the
\* sleep but goes on to the next read; while the packet is being passed over
\* the flag stays true, and the task's next step is the next read.
C21_UnrecognizedIgnored ==
    /\ [](\A pkt \in UnrecognizedPackets :
             LET r == _read_packets_dispatch(pkt)
             IN  /\ r.success
                 /\ r.states = states
                 /\ r.log.calls = <<>>
                 /\ r.log.broadcast = {}
                 /\ ~r.break)
    /\ [](pollPc = "ignored" =>
             /\ last_update_success
             /\ lastPoll.kind = "ignored"
             /\ ENABLED PollReadAgain)
    /\ [][(pollPc = "read" /\ pollPc' = "ignored") =>
             /\ states' = states
             /\ last_update_success'
             /\ lastPoll'.calls = <<>>
             /\ lastPoll'.broadcast = {}]_vars
    /\ [][(pollPc = "ignored" /\ pollPc' # "ignored") =>
             /\ pollPc' = "read"
             /\ states' = states
             /\ last_update_success' = last_update_success]_vars

\* C21 witness: the poll task has just read a packet of no recognized prefix
\* while the State Store holds states and a listener is subscribed.
C21_Witness ==
    /\ pollPc = "ignored"
    /\ lastPoll.kind = "ignored"
    /\ states # <<>>
    /\ _entities # {}
    /\ last_update_success
    /\ streamLeft > 0


\* C22: a failure of a keepalive send is caught: the step in which the send
\* fails changes neither the availability flag nor the State Store, makes no
\* call or broadcast to the listeners and advances the counter as every tick
\* does; the task is at its loop test afterwards, can take its next iteration,
\* and the send after a failed one is the one the schedule gives for its tick.
C22_KeepaliveFailureCaught ==
    /\ [](fnCall.fn = "_keepalive" =>
             /\ kaPc = "tick"
             /\ counter = Len(fnRet.v) % 60
             /\ Len(fnRet.v) < MaxKeepaliveIterations => ENABLED KeepaliveNext
             /\ \A i \in fnCall.fails :
                   i + 1 <= Len(fnRet.v) =>
                       fnRet.v[i + 1] = (IF i % 60 = 0 THEN fnRet.v[1] ELSE <<82, 1, 2>>))
    /\ [][(fnCall.fn = "_keepalive" /\ Len(fnRet'.v) \in fnCall.fails /\ fnRet' # fnRet) =>
             /\ last_update_success' = last_update_success
             /\ states' = states
             /\ lastPoll' = lastPoll
             /\ _entities' = _entities
             /\ counter' = (counter + 1) % 60
             /\ kaPc' = "tick"]_vars

\* C22 witness: the first two sends and the first send of the second cycle
\* have failed, listeners are subscribed, and the task has gone on to the bare
\* probe of tick 1 of the second cycle with the flag still true.
C22_Witness ==
    /\ fnCall.fn = "_keepalive"
    /\ fnCall.fails = {1, 2, 61}
    /\ Len(fnRet.v) = 62
    /\ fnRet.v[61] = fnRet.v[1]
    /\ fnRet.v[62] = <<82, 1, 2>>
    /\ counter = 2
    /\ kaPc = "tick"
    /\ last_update_success
    /\ _entities # {}
    /\ states # <<>>


\* C23: the availability flag reflects the poll task's latest read: while the
\* latest read of the poll task has failed or returned no data (the task is
\* in the sleep that follows it, no later read has happened), the flag is
\* false, whatever initialize() is doing meanwhile.
C23_FlagReflectsLatestRead ==
    (pollPc = "sleep" /\ lastPoll.kind \in {"empty", "error"}) => ~last_update_success

====
